---- MODULE Spec2Model ----
(***************************************************************************)
(* State-machine model of the watch QC alignment canvas                    *)
(* (src/components/QCAlignment.tsx): the React state of one mounted        *)
(* QCAlignment component, the image reference and API key its host passes  *)
(* in, and the asynchronous export and AI-analysis tasks it starts.        *)
(*                                                                         *)
(* Units.  scale is held in thousandths (1.0 = 1000), so that the wheel    *)
(* step 0.1 is 100 and the pinch sensitivity 0.005 per pixel is 5 per      *)
(* pixel.  rotation is held in ten-thousandths of a degree (0.01 = 100),   *)
(* fine enough to hold the error of a floating-point sum that toFixed(2)   *)
(* rounds away.  Pointer and touch coordinates are whole pixels, and the   *)
(* touch points are chosen on a 3-4-5 line so that Math.hypot between any  *)
(* two of them is a whole number.                                          *)
(*                                                                         *)
(* The component is driven by independent groups of controls.  Each        *)
(* specification below is a session in which the user works one group:     *)
(* SpecGesture the pointer, wheel and touch gestures, SpecTouch the touch   *)
(* gestures alone, SpecPinch a pinch followed frame by frame (the only     *)
(* session that keeps the history of the pinch), SpecCanvas the            *)
(* gestures and the rotation controls, SpecAsync the export and analysis   *)
(* with the controls that change what they have to preserve, SpecSteps the  *)
(* rotation buttons, SpecRotation the buttons and the slider, SpecAdjust    *)
(* adjustRotation as a function of any two-decimal delta, and SpecSession   *)
(* any one of the gesture, export-and-analysis and rotation groups, chosen  *)
(* when the session starts.  Every handler is modelled whole in each of    *)
(* them.  SpecGuard adds direct calls of the export and analysis handlers  *)
(* while no image is shown.                                                *)
(*                                                                         *)
(* Around the canvas, SpecHost follows the host shell (src/App.tsx: the    *)
(* mode, the image and object URLs of each mode) with the Timegrapher view *)
(* (src/unnamed/part_001).  The pure functions are applied on their own,   *)
(* each to every input within its bounds, the arguments and the result of  *)
(* the last application being held in probe: SpecWatermark the font size   *)
(* of the export watermark, SpecMetric getMetricStatus, SpecService the    *)
(* two analysis functions of src/services/geminiService.ts, SpecCompress   *)
(* compressImage.                                                          *)
(***************************************************************************)
EXTENDS Integers, Sequences, FiniteSets, TLC

VARIABLES
    imageSrc,           \* prop imageSrc: 0 = null, i > 0 = the i-th object URL
    apiKey,             \* prop apiKey: "" or a key
    imgState,           \* useState<ImageState>
    overlay,            \* useState<OverlayConfig>
    analysis,           \* useState<AlignmentAnalysis|null>: 0 = null, i = verdict computed from image i
    isAnalyzing,        \* useState(false)
    isDragging,         \* useState(false)
    dragStart,          \* useState({x: 0, y: 0})
    isSaving,           \* useState(false)
    lastTouchDistance,  \* useRef<number|null>: NoDistance = null
    lastTouchPos,       \* useRef<{x,y}|null>: <<>> = null, <<p>> = p
    captures,           \* number of html2canvas captures that have not settled
    anTasks,            \* the analysis requests that have not finished, oldest first
    out,                \* what the last step showed the user: alerts and downloads
    gest,               \* <<>>, or <<P, T, Q>>: a press at P with translate T followed only by moves, the last one to Q
    hist,               \* history of the session: which control acted last, the finger left by a pinch, the exact rotation
    session,            \* the group of controls the user works in this session; never changes
    mode,               \* App: useState<QCMode>, "alignment" or "timegrapher"
    timegrapherImage,   \* App: useState<string|null>, as imageSrc (which is App's alignmentImage)
    created,            \* how many object URLs URL.createObjectURL has handed to handleImageUpload
    revoked,            \* the object URLs passed to URL.revokeObjectURL
    metrics,            \* Timegrapher: useState<TimegrapherMetrics|null>, 0 = null, i = read from image i
    loading,            \* Timegrapher: useState(false)
    error,              \* Timegrapher: useState<string|null>, "" = null
    tgTasks,            \* Timegrapher: the analyses that have not finished
    probe               \* <<>>, or the arguments and the result of the function applied last

vars == <<imageSrc, apiKey, imgState, overlay, analysis, isAnalyzing, isDragging,
          dragStart, isSaving, lastTouchDistance, lastTouchPos, captures, anTasks,
          out, gest, hist, session, mode, timegrapherImage, created, revoked,
          metrics, loading, error, tgTasks, probe>>

\* the state of the host shell, of the Timegrapher view and of the functions
\* applied on their own: no handler of QCAlignment writes it, except that an
\* upload goes through the host's handleImageUpload
hostVars == <<mode, timegrapherImage, created, revoked>>
timegrapherVars == <<metrics, loading, error, tgTasks>>
elsewhere == <<mode, timegrapherImage, metrics, loading, error, tgTasks, probe>>

\* the state of the QCAlignment component and the ghosts of its sessions
alignmentVars == <<imgState, overlay, analysis, isAnalyzing, isDragging, dragStart,
                   isSaving, lastTouchDistance, lastTouchPos, captures, anTasks,
                   out, gest, hist>>

----------------------------------------------------------------------------
(* Bounds of the model *)

MaxImages == 2          \* a view's uploads are followed until it shows the MaxImages-th object URL
MaxPan == 800           \* a press is modelled only while |x|, |y| <= MaxPan
MaxWheel == 1           \* the wheel is modelled within MaxWheel steps of scale 0.1, 1 and 10
MaxRot == 1000          \* rotation stays within +-MaxRot (0.1 degree)
MaxFloatErr == 1        \* error of one floating-point sum, in ten-thousandths of a degree
MaxTouches == 3         \* touches carried by one touch event
NumColors == 2          \* how many entries of the colour palette are used
MaxTurn == 10000        \* the rotation buttons alone are followed within +-MaxTurn (1 degree)
MaxDelta == 200         \* adjustRotation as a function is applied to deltas within +-MaxDelta
MaxFrames == 3          \* frames of one pinch sequence are counted up to MaxFrames
MaxSpread == 7          \* a followed pinch spreads two fingers to MaxSpread * 300 pixels
MaxCanvasWidth == 1200  \* the watermark is sized for canvases 0..MaxCanvasWidth pixels wide
MaxRate == 200          \* rates are classified within +-MaxRate tenths of a second per day
MaxAmp == 3500          \* amplitudes are classified within 0..MaxAmp tenths of a degree
MaxBeat == 10           \* beat errors are classified within 0..MaxBeat tenths of a millisecond

\* compressImage is applied to images of up to MaxSide x MaxSide pixels with
\* limits up to MaxLimit
MaxSide == 9
MaxLimit == 6

(* Program constants *)

MinScale == 100         \* Math.max(0.1, ...)
MaxScale == 10000       \* Math.min(10, ...)
WheelStep == 100        \* Math.sign(deltaY) * 0.1
ZoomSpeed == 5          \* zoomSpeed = 0.005 per pixel of pinch distance
RotStep == 1000         \* adjustRotation(+-0.1)
SliderStep == 1000      \* the rotation slider's step="0.1"
FixedUnit == 100        \* toFixed(2): one hundredth
OverlayScaleDefault == 100

NoDistance == -1        \* lastTouchDistance.current === null
RulerSize == 800        \* rulerSize, in pixels
HourMarkers == 6        \* [...Array(6)]
MarkerAngle == 30       \* rotate(i * 30 deg)
GridCell == 50          \* backgroundSize: 50px 50px
FontFloor == 24         \* Math.max(24, ...): the smallest watermark font, in pixels
FontPercent == 3        \* canvas.width * 0.03
RateGood == 50          \* Math.abs(value) <= 5, in tenths
RateWarn == 150         \* Math.abs(value) <= 15, in tenths
AmpGoodMin == 2500      \* value >= 250, in tenths
AmpGoodMax == 3200      \* value <= 320, in tenths
AmpWarnMin == 2300      \* value >= 230, in tenths
BeatGood == 2           \* value <= 0.2, in tenths
BeatWarn == 5           \* value <= 0.5, in tenths

Pt(px, py) == [x |-> px, y |-> py]

Points == {Pt(0, 0), Pt(600, 800), Pt(1200, 1600)}

\* deltaY of a wheel event: mouse notches and a trackpad's small delta
WheelDeltas == {-240, -120, 0, 3, 120}

Palette == <<"#00CFEF", "#ef4444", "#22c55e", "#eab308", "#ffffff">>

Colors == {Palette[i] : i \in 1..(IF NumColors < 5 THEN NumColors ELSE 5)}

\* tool buttons for every member of OverlayConfig.type
OverlayTypesDeclared == {"indices", "grid", "crosshair"}

\* the kinds the Indices and Grid tool buttons store
OverlayTypes == {"indices", "grid"}

Keys == {"", "key"}

\* a slider of step 0.001
SliderValuesFine == {v \in (0 - MaxRot)..MaxRot : v % (SliderStep \div 100) = 0}

\* values the rotation slider can report within the modelled range
SliderValues == {v \in (0 - MaxRot)..MaxRot : v % SliderStep = 0}

\* the deltas adjustRotation is applied to as a function: hundredths of a degree
TwoDecimalDeltas == {d \in (0 - MaxDelta)..MaxDelta : d % FixedUnit = 0}

\* what a floating-point sum can be off by
FloatErrs == (0 - MaxFloatErr)..MaxFloatErr

\* touch lists of an event: up to MaxTouches points at different places, listed
\* from left to right (only the distance between two touches is ever used)
Ordered(ts) == \A i \in 1..Len(ts) : \A j \in 1..Len(ts) : i < j => ts[i].x < ts[j].x

TouchLists ==
    {ts \in UNION {[1..n -> Points] : n \in 0..MaxTouches} : Ordered(ts)}

\* the frames of a pinch followed step by step: one finger stays, the other
\* is 300 pixels further away with each step
PinchFrames == {<<Pt(0, 0), Pt(180 * i, 240 * i)>> : i \in 0..MaxSpread}

\* the touches that can remain when a touch ends
RemainingLists == {ts \in TouchLists : Len(ts) < MaxTouches}

----------------------------------------------------------------------------
(* Pure helpers *)

Abs(n) == IF n < 0 THEN 0 - n ELSE n

Sign(n) == IF n > 0 THEN 1 ELSE IF n < 0 THEN -1 ELSE 0

Max(a, b) == IF a >= b THEN a ELSE b

Min(a, b) == IF a <= b THEN a ELSE b

\* ClampScale without the Math.min(10, ...)
ClampScaleNoUpper(s) == Max(MinScale, s)

\* Math.max(0.1, Math.min(10, s))
ClampScale(s) == Max(MinScale, Min(MaxScale, s))

\* Math.hypot(dx, dy); the touch points are chosen so that it is a whole number.
\* It lies between the larger of |dx|, |dy| and 0.7 (|dx| + |dy|) below, and
\* |dx| + |dy| above
Hypot(dx, dy) ==
    CHOOSE r \in Max(Max(Abs(dx), Abs(dy)), (7 * (Abs(dx) + Abs(dy))) \div 10)
                   ..(Abs(dx) + Abs(dy)) :
        r * r <= dx * dx + dy * dy /\ dx * dx + dy * dy < (r + 1) * (r + 1)

\* v.toFixed(2) without the rounding
ToFixed2Truncated(v) == Sign(v) * ((Abs(v) \div FixedUnit) * FixedUnit)

\* parseFloat(v.toFixed(2)): the nearest hundredth, a tie going away from zero
ToFixed2(v) == Sign(v) * (((Abs(v) + FixedUnit \div 2) \div FixedUnit) * FixedUnit)

\* prev.rotation + delta stored without the toFixed(2)
AdjustedRotationUnrounded(r, delta, e) == r + delta + e

\* parseFloat((prev.rotation + delta).toFixed(2)); the floating-point sum is off by e
AdjustedRotation(r, delta, e) == ToFixed2(r + delta + e)

IdentityImage == [rotation |-> 0, scale |-> 1000, x |-> 0, y |-> 0]

\* a reset that steps the overlay scale by its default instead of storing it
ResetOverlayRelative(o) == [o EXCEPT !.rotation = 0, !.scale = o.scale + OverlayScaleDefault,
                                     !.offsetX = 0, !.offsetY = 0]

\* a reset that writes the initial overlay, kind and colour included
ResetOverlayToInitial(o) ==
    [type |-> "indices", color |-> Palette[1], rotation |-> 0,
     scale |-> OverlayScaleDefault, offsetX |-> 0, offsetY |-> 0]

\* a reset that stores the image's identity scale in the overlay
ResetOverlayUnitScale(o) == [o EXCEPT !.rotation = 0, !.scale = 1,
                                      !.offsetX = 0, !.offsetY = 0]

\* the geometry fields handleReset writes; type and color are spread from the old value
ResetOverlay(o) == [o EXCEPT !.rotation = 0, !.scale = OverlayScaleDefault,
                             !.offsetX = 0, !.offsetY = 0]

\* Anchor that forgets to subtract the current translate
AnchorNoTranslate(p, st) == Pt(p.x, p.y)

\* renderOverlay: the elements of the guide, <<>> when it returns null.  The
\* indices guide is the central cross, the hour markers and two circles; the
\* grid guide is one bordered box of square cells
GuideLine(angle, c) == [shape |-> "line", angle |-> angle, size |-> RulerSize, color |-> c]

GuideCircle(c) == [shape |-> "circle", angle |-> 0, size |-> RulerSize, color |-> c]

GuideGrid(c) == [shape |-> "grid", angle |-> 0, size |-> GridCell, color |-> c]

\* renderOverlay that maps four hour markers instead of six
renderOverlayFourMarkers(o) ==
    IF o.type = "indices"
    THEN <<GuideLine(0, o.color), GuideLine(90, o.color)>>
         \o [i \in 1..(HourMarkers - 2) |-> GuideLine((i - 1) * MarkerAngle, o.color)]
         \o <<GuideCircle(o.color), GuideCircle(o.color)>>
    ELSE IF o.type = "grid"
    THEN <<GuideGrid(o.color)>>
    ELSE <<>>

renderOverlay(o) ==
    IF o.type = "indices"
    THEN <<GuideLine(0, o.color), GuideLine(90, o.color)>>
         \o [i \in 1..HourMarkers |-> GuideLine((i - 1) * MarkerAngle, o.color)]
         \o <<GuideCircle(o.color), GuideCircle(o.color)>>
    ELSE IF o.type = "grid"
    THEN <<GuideGrid(o.color)>>
    ELSE <<>>

\* an overlay layer nested in the image layer, so that the guide turns and
\* grows with the image
OverlayLayerInImage(src, st, o) ==
    IF src = 0 THEN <<>>
    ELSE [i \in 1..Len(renderOverlay(o)) |->
            [renderOverlay(o)[i] EXCEPT !.angle = @ + st.rotation,
                                        !.size = (@ * st.scale) \div IdentityImage.scale]]

\* what the canvas draws above the image: with an image loaded, the overlay
\* layer holds renderOverlay(); the layer is a sibling of the image layer and
\* carries no transform
OverlayLayer(src, st, o) == IF src = 0 THEN <<>> ELSE renderOverlay(o)

\* anchor = pointer position - current translate
Anchor(p, st) == Pt(p.x - st.x, p.y - st.y)

\* translate = pointer position - anchor
Panned(st, p, anchor) == [st EXCEPT !.x = p.x - anchor.x, !.y = p.y - anchor.y]

\* prev.scale + delta, clamped
Zoomed(st, delta) == [st EXCEPT !.scale = ClampScale(st.scale + delta)]

TouchDistance(ts) == Hypot(ts[2].x - ts[1].x, ts[2].y - ts[1].y)

\* a press is modelled only while the image is within MaxPan of the centre
WithinPan == Abs(imgState.x) <= MaxPan /\ Abs(imgState.y) <= MaxPan

\* a wheel step is modelled only when it ends near the identity scale or a bound
WithinWheel(s) ==
    \E a \in {MinScale, IdentityImage.scale, MaxScale} : Abs(s - a) <= MaxWheel * WheelStep

\* the ghost of a move to p: a press followed only by moves stays recorded
Moved(p) == IF gest = <<>> THEN <<>> ELSE <<gest[1], gest[2], p>>

\* the history record.  last: "upload" or "reset" when that control acted last
\* ("reset again" when Reset was pressed twice running), "ignored" when a mouse
\* down, wheel, touch start or touch move arrived last and no image was
\* loaded, "declined" when handleAnalyze or handleSaveImage returned at its
\* guard last, "" otherwise.  lifted:
\* <<>>, or <<p, q>> when a touch of a pinch that interrupted a one-finger pan
\* was lifted leaving a finger at p, and only one-touch moves followed, the
\* last one to q.  rot: the rotation the controls used so far give in exact
\* arithmetic.  pinch: <<>>, or <<s, d, n>> when a two-touch sequence began at
\* scale s with reference distance d and n frames of it (counted up to
\* MaxFrames) followed with nothing in between, each ending strictly between
\* the scale bounds (kept in the session that follows a pinch)
Hist(l, lf, r) == [last |-> l, lifted |-> lf, rot |-> r, pinch |-> <<>>]

\* the history after a step that is neither an upload, a reset, a rotation nor
\* part of the touch sequence
Quiet == Hist("", <<>>, hist.rot)

\* the history after handleAnalyze or handleSaveImage returned at its guard
Declined == Hist("declined", <<>>, hist.rot)

\* the history after a canvas event that arrived with no image loaded
Ignored == Hist("ignored", <<>>, hist.rot)

\* the history of a touch end that leaves the touches ts: it is the lift that
\* ends a pinch begun during a one-finger pan when one touch remains
Lifted(ts) ==
    IF imageSrc # 0 /\ isDragging /\ lastTouchDistance # NoDistance /\ Len(ts) = 1
    THEN <<ts[1], ts[1]>>
    ELSE <<>>

\* the history of a touch move: after such a lift, a one-touch move is a frame
\* of the finger that remained
StillLifted(ts) ==
    IF hist.lifted # <<>> /\ Len(ts) = 1 THEN <<hist.lifted[1], ts[1]>> ELSE <<>>

\* the pinch history of a touch start: two touches begin a sequence.  The
\* history is kept in the session that follows a pinch and nowhere else
PinchBegun(ts) ==
    IF session = "pinch" /\ imageSrc # 0 /\ Len(ts) = 2
    THEN <<imgState.scale, lastTouchDistance', 0>>
    ELSE <<>>

\* the pinch history of a touch move: a two-touch frame begins a sequence when
\* no reference is held, and otherwise continues the one in progress (or the
\* one that begins at the reference held) unless it ends on a scale bound
PinchFrame(ts) ==
    IF session # "pinch" \/ imageSrc = 0 \/ Len(ts) # 2 THEN <<>>
    ELSE IF lastTouchDistance = NoDistance
    THEN <<imgState.scale, lastTouchDistance', 0>>
    ELSE LET from == IF hist.pinch # <<>> THEN hist.pinch
                     ELSE <<imgState.scale, lastTouchDistance, 0>>
         IN  IF MinScale < imgState'.scale /\ imgState'.scale < MaxScale
             THEN <<from[1], from[2], Min(from[3] + 1, MaxFrames)>>
             ELSE <<>>

\* App.handleImageUpload: if (image && image.startsWith('blob:'))
\* URL.revokeObjectURL(image); every image reference is an object URL
Revoked(image) == IF image # 0 THEN revoked \cup {image} ELSE revoked

----------------------------------------------------------------------------
\* the component as it is mounted, before any image is chosen
Mounted ==
    /\ imageSrc = 0
    /\ apiKey = ""
    /\ imgState = IdentityImage
    /\ overlay = [type |-> "indices", color |-> Palette[1], rotation |-> 0,
                  scale |-> OverlayScaleDefault, offsetX |-> 0, offsetY |-> 0]
    /\ analysis = 0
    /\ isAnalyzing = FALSE
    /\ isDragging = FALSE
    /\ dragStart = Pt(0, 0)
    /\ isSaving = FALSE
    /\ lastTouchDistance = NoDistance
    /\ lastTouchPos = <<>>
    /\ captures = 0
    /\ anTasks = <<>>
    /\ out = <<>>
    /\ gest = <<>>
    /\ hist = Hist("", <<>>, 0)
    /\ mode = "alignment"
    /\ timegrapherImage = 0
    /\ created = 0
    /\ revoked = {}
    /\ metrics = 0
    /\ loading = FALSE
    /\ error = ""
    /\ tgTasks = <<>>
    /\ probe = <<>>

Init == Mounted /\ session = "any"

\* a session of one of the groups of controls
Sessions == {"gesture", "async", "rotation"}

InitSession == Mounted /\ session \in Sessions

\* a session that follows a pinch
InitPinch == Mounted /\ session = "pinch"

----------------------------------------------------------------------------
(* Host shell *)

\* App.handleSaveKey: the settings field stores whatever is typed
handleSaveKey(k) ==
    /\ apiKey # k
    /\ apiKey' = k
    /\ out' = <<>>
    /\ hist' = Quiet
    /\ UNCHANGED <<session, elsewhere, created, revoked>>
    /\ gest' = <<>>
    /\ UNCHANGED <<imageSrc, imgState, overlay, analysis, isAnalyzing, isDragging,
                   dragStart, isSaving, lastTouchDistance, lastTouchPos, captures,
                   anTasks>>

(* Discrete controls *)

\* handleFileChange without the setAnalysis(null)
handleFileChangeKeepsAnalysis ==
    /\ imageSrc < MaxImages
    /\ imageSrc' = created + 1
    /\ created' = created + 1
    /\ revoked' = Revoked(imageSrc)
    /\ imgState' = IdentityImage
    /\ out' = <<>>
    /\ hist' = Hist("upload", <<>>, 0)
    /\ UNCHANGED <<session, elsewhere>>
    /\ gest' = <<>>
    /\ UNCHANGED <<apiKey, overlay, analysis, isAnalyzing, isDragging, dragStart, isSaving,
                   lastTouchDistance, lastTouchPos, captures, anTasks>>

\* handleFileChange that also puts the overlay back to its initial value
handleFileChangeResetsOverlay ==
    /\ imageSrc < MaxImages
    /\ imageSrc' = created + 1
    /\ created' = created + 1
    /\ revoked' = Revoked(imageSrc)
    /\ imgState' = IdentityImage
    /\ analysis' = 0
    /\ overlay' = ResetOverlayToInitial(overlay)
    /\ out' = <<>>
    /\ hist' = Hist("upload", <<>>, 0)
    /\ UNCHANGED <<session, elsewhere>>
    /\ gest' = <<>>
    /\ UNCHANGED <<apiKey, isAnalyzing, isDragging, dragStart, isSaving,
                   lastTouchDistance, lastTouchPos, captures, anTasks>>

\* handleFileChange with a file chosen: onUpload is the host's
\* handleImageUpload(file, ALIGNMENT), which creates the next object URL and
\* revokes the one it replaces
handleFileChange ==
    /\ imageSrc < MaxImages
    /\ imageSrc' = created + 1
    /\ created' = created + 1
    /\ revoked' = Revoked(imageSrc)
    /\ imgState' = IdentityImage
    /\ analysis' = 0
    /\ out' = <<>>
    /\ hist' = Hist("upload", <<>>, 0)
    /\ UNCHANGED <<session, elsewhere>>
    /\ gest' = <<>>
    /\ UNCHANGED <<apiKey, overlay, isAnalyzing, isDragging, dragStart, isSaving,
                   lastTouchDistance, lastTouchPos, captures, anTasks>>

handleReset ==
    /\ imgState' = IdentityImage
    /\ overlay' = ResetOverlay(overlay)
    /\ out' = <<>>
    /\ hist' = Hist(IF hist.last \in {"reset", "reset again"} THEN "reset again" ELSE "reset",
                    <<>>, 0)
    /\ UNCHANGED <<session, elsewhere, created, revoked>>
    /\ gest' = <<>>
    /\ UNCHANGED <<imageSrc, apiKey, analysis, isAnalyzing, isDragging, dragStart,
                   isSaving, lastTouchDistance, lastTouchPos, captures, anTasks>>

\* the Indices and Grid tool buttons
setOverlayType(t) ==
    /\ overlay' = [overlay EXCEPT !.type = t]
    /\ out' = <<>>
    /\ hist' = Quiet
    /\ UNCHANGED <<session, elsewhere, created, revoked>>
    /\ gest' = <<>>
    /\ UNCHANGED <<imageSrc, apiKey, imgState, analysis, isAnalyzing, isDragging,
                   dragStart, isSaving, lastTouchDistance, lastTouchPos, captures,
                   anTasks>>

\* the ruler colour buttons
setOverlayColor(c) ==
    /\ overlay' = [overlay EXCEPT !.color = c]
    /\ out' = <<>>
    /\ hist' = Quiet
    /\ UNCHANGED <<session, elsewhere, created, revoked>>
    /\ gest' = <<>>
    /\ UNCHANGED <<imageSrc, apiKey, imgState, analysis, isAnalyzing, isDragging,
                   dragStart, isSaving, lastTouchDistance, lastTouchPos, captures,
                   anTasks>>

\* parseFloat((prev.rotation + delta).toFixed(2)); the sum is a floating-point one
adjustRotation(delta) ==
    /\ \E e \in FloatErrs :
         imgState' = [imgState EXCEPT !.rotation = AdjustedRotation(imgState.rotation, delta, e)]
    /\ out' = <<>>
    /\ hist' = Hist("", <<>>, hist.rot + delta)
    /\ UNCHANGED <<session, elsewhere, created, revoked>>
    /\ gest' = <<>>
    /\ UNCHANGED <<imageSrc, apiKey, overlay, analysis, isAnalyzing, isDragging,
                   dragStart, isSaving, lastTouchDistance, lastTouchPos, captures,
                   anTasks>>

\* the rotation slider's onChange
setRotation(v) ==
    /\ imgState' = [imgState EXCEPT !.rotation = v]
    /\ out' = <<>>
    /\ hist' = Hist("", <<>>, v)
    /\ UNCHANGED <<session, elsewhere, created, revoked>>
    /\ gest' = <<>>
    /\ UNCHANGED <<imageSrc, apiKey, overlay, analysis, isAnalyzing, isDragging,
                   dragStart, isSaving, lastTouchDistance, lastTouchPos, captures,
                   anTasks>>

----------------------------------------------------------------------------
\* the two rotation buttons, adjustRotation(-0.1) and adjustRotation(0.1),
\* modelled while the rotation stays within +-m
pressRotate(m) ==
    \E d \in {0 - RotStep, RotStep} :
        Abs(imgState.rotation + d) <= m /\ adjustRotation(d)

\* adjustRotation applied to any two-decimal delta, within +-MaxRot
adjustAny ==
    \E d \in TwoDecimalDeltas :
        Abs(imgState.rotation + d) <= MaxRot /\ adjustRotation(d)

----------------------------------------------------------------------------
(* Mouse events *)

\* handleMouseDown without the if (!imageSrc) return
handleMouseDownNoGuard(p) ==
    /\ WithinPan
    /\ isDragging' = TRUE
    /\ dragStart' = Anchor(p, imgState)
    /\ gest' = <<p, Pt(imgState.x, imgState.y), p>>
    /\ out' = <<>>
    /\ hist' = IF imageSrc = 0 THEN Ignored
               ELSE Quiet
    /\ UNCHANGED <<session, elsewhere, created, revoked>>
    /\ UNCHANGED <<imageSrc, apiKey, imgState, overlay, analysis, isAnalyzing,
                   isSaving, lastTouchDistance, lastTouchPos, captures, anTasks>>

handleMouseDown(p) ==
    /\ WithinPan
    /\ IF imageSrc = 0
       THEN UNCHANGED <<isDragging, dragStart>> /\ gest' = <<>>
       ELSE /\ isDragging' = TRUE
            /\ dragStart' = Anchor(p, imgState)
            /\ gest' = <<p, Pt(imgState.x, imgState.y), p>>
    /\ out' = <<>>
    /\ hist' = IF imageSrc = 0 THEN Ignored
               ELSE Quiet
    /\ UNCHANGED <<session, elsewhere, created, revoked>>
    /\ UNCHANGED <<imageSrc, apiKey, imgState, overlay, analysis, isAnalyzing,
                   isSaving, lastTouchDistance, lastTouchPos, captures, anTasks>>

\* handleMouseMove without the if (isDragging)
handleMouseMoveAlwaysPans(p) ==
    /\ imgState' = Panned(imgState, p, dragStart)
    /\ gest' = Moved(p)
    /\ out' = <<>>
    /\ hist' = Quiet
    /\ UNCHANGED <<session, elsewhere, created, revoked>>
    /\ UNCHANGED <<imageSrc, apiKey, overlay, analysis, isAnalyzing, isDragging,
                   dragStart, isSaving, lastTouchDistance, lastTouchPos, captures,
                   anTasks>>

handleMouseMove(p) ==
    /\ imgState' = IF isDragging THEN Panned(imgState, p, dragStart) ELSE imgState
    /\ gest' = Moved(p)
    /\ out' = <<>>
    /\ hist' = Quiet
    /\ UNCHANGED <<session, elsewhere, created, revoked>>
    /\ UNCHANGED <<imageSrc, apiKey, overlay, analysis, isAnalyzing, isDragging,
                   dragStart, isSaving, lastTouchDistance, lastTouchPos, captures,
                   anTasks>>

\* bound to onMouseUp
handleMouseUp ==
    /\ isDragging' = FALSE
    /\ out' = <<>>
    /\ hist' = Quiet
    /\ UNCHANGED <<session, elsewhere, created, revoked>>
    /\ gest' = <<>>
    /\ UNCHANGED <<imageSrc, apiKey, imgState, overlay, analysis, isAnalyzing,
                   dragStart, isSaving, lastTouchDistance, lastTouchPos, captures,
                   anTasks>>

\* onMouseLeave={handleMouseUp}
onMouseLeave == handleMouseUp

\* handleWheel that zooms by deltaY * 0.001 instead of a fixed step
handleWheelProportional(deltaY) ==
    /\ WithinWheel(ClampScale(imgState.scale - deltaY))
    /\ imgState' = IF imageSrc = 0 THEN imgState
                   ELSE Zoomed(imgState, 0 - deltaY)
    /\ out' = <<>>
    /\ hist' = IF imageSrc = 0 THEN Ignored
               ELSE Quiet
    /\ UNCHANGED <<session, elsewhere, created, revoked>>
    /\ gest' = <<>>
    /\ UNCHANGED <<imageSrc, apiKey, overlay, analysis, isAnalyzing, isDragging,
                   dragStart, isSaving, lastTouchDistance, lastTouchPos, captures,
                   anTasks>>

\* handleWheel that builds the new transform without ...prev
handleWheelNoSpread(deltaY) ==
    /\ WithinWheel(ClampScale(imgState.scale - Sign(deltaY) * WheelStep))
    /\ imgState' = IF imageSrc = 0 THEN imgState
                   ELSE [IdentityImage EXCEPT !.scale =
                             ClampScale(imgState.scale - Sign(deltaY) * WheelStep)]
    /\ out' = <<>>
    /\ hist' = IF imageSrc = 0 THEN Ignored
               ELSE Quiet
    /\ UNCHANGED <<session, elsewhere, created, revoked>>
    /\ gest' = <<>>
    /\ UNCHANGED <<imageSrc, apiKey, overlay, analysis, isAnalyzing, isDragging,
                   dragStart, isSaving, lastTouchDistance, lastTouchPos, captures,
                   anTasks>>

handleWheel(deltaY) ==
    /\ WithinWheel(ClampScale(imgState.scale - Sign(deltaY) * WheelStep))
    /\ imgState' = IF imageSrc = 0 THEN imgState
                   ELSE Zoomed(imgState, (0 - Sign(deltaY)) * WheelStep)
    /\ out' = <<>>
    /\ hist' = IF imageSrc = 0 THEN Ignored
               ELSE Quiet
    /\ UNCHANGED <<session, elsewhere, created, revoked>>
    /\ gest' = <<>>
    /\ UNCHANGED <<imageSrc, apiKey, overlay, analysis, isAnalyzing, isDragging,
                   dragStart, isSaving, lastTouchDistance, lastTouchPos, captures,
                   anTasks>>

----------------------------------------------------------------------------
(* Touch events *)

handleTouchStart(ts) ==
    /\ Len(ts) = 1 => WithinPan
    /\ IF imageSrc = 0
       THEN UNCHANGED <<isDragging, dragStart, lastTouchDistance, lastTouchPos>>
            /\ gest' = <<>>
       ELSE IF Len(ts) = 1
       THEN /\ lastTouchPos' = <<ts[1]>>
            /\ dragStart' = Anchor(ts[1], imgState)
            /\ isDragging' = TRUE
            /\ gest' = <<ts[1], Pt(imgState.x, imgState.y), ts[1]>>
            /\ UNCHANGED lastTouchDistance
       ELSE IF Len(ts) = 2
       THEN /\ lastTouchDistance' = TouchDistance(ts)
            /\ gest' = <<>>
            /\ UNCHANGED <<isDragging, dragStart, lastTouchPos>>
       ELSE UNCHANGED <<isDragging, dragStart, lastTouchDistance, lastTouchPos>>
            /\ gest' = <<>>
    /\ out' = <<>>
    /\ hist' = IF imageSrc = 0 THEN Ignored
               ELSE [Quiet EXCEPT !.pinch = PinchBegun(ts)]
    /\ UNCHANGED <<session, elsewhere, created, revoked>>
    /\ UNCHANGED <<imageSrc, apiKey, imgState, overlay, analysis, isAnalyzing,
                   isSaving, captures, anTasks>>

\* handleTouchMove whose pan branch does not ask for a single touch
handleTouchMovePansAnyCount(ts) ==
    /\ IF imageSrc = 0
       THEN UNCHANGED <<imgState, lastTouchDistance>> /\ gest' = <<>>
       ELSE IF Len(ts) >= 1 /\ isDragging
       THEN /\ imgState' = Panned(imgState, ts[1], dragStart)
            /\ gest' = Moved(ts[1])
            /\ UNCHANGED lastTouchDistance
       ELSE IF Len(ts) = 2
       THEN /\ imgState' = IF lastTouchDistance # NoDistance
                           THEN Zoomed(imgState, (TouchDistance(ts) - lastTouchDistance) * ZoomSpeed)
                           ELSE imgState
            /\ lastTouchDistance' = TouchDistance(ts)
            /\ gest' = <<>>
       ELSE UNCHANGED <<imgState, lastTouchDistance>> /\ gest' = <<>>
    /\ out' = <<>>
    /\ hist' = IF imageSrc = 0 THEN Ignored
               ELSE [Hist("", StillLifted(ts), hist.rot) EXCEPT !.pinch = PinchFrame(ts)]
    /\ UNCHANGED <<session, elsewhere, created, revoked>>
    /\ UNCHANGED <<imageSrc, apiKey, overlay, analysis, isAnalyzing, isDragging,
                   dragStart, isSaving, lastTouchPos, captures, anTasks>>

\* handleTouchMove that measures every frame from the first reference
handleTouchMoveKeepsReference(ts) ==
    /\ IF imageSrc = 0
       THEN UNCHANGED <<imgState, lastTouchDistance>> /\ gest' = <<>>
       ELSE IF Len(ts) = 1 /\ isDragging
       THEN /\ imgState' = Panned(imgState, ts[1], dragStart)
            /\ gest' = Moved(ts[1])
            /\ UNCHANGED lastTouchDistance
       ELSE IF Len(ts) = 2
       THEN /\ imgState' = IF lastTouchDistance # NoDistance
                           THEN Zoomed(imgState, (TouchDistance(ts) - lastTouchDistance) * ZoomSpeed)
                           ELSE imgState
            /\ lastTouchDistance' = IF lastTouchDistance # NoDistance THEN lastTouchDistance
                                   ELSE TouchDistance(ts)
            /\ gest' = <<>>
       ELSE UNCHANGED <<imgState, lastTouchDistance>> /\ gest' = <<>>
    /\ out' = <<>>
    /\ hist' = IF imageSrc = 0 THEN Ignored
               ELSE [Hist("", StillLifted(ts), hist.rot) EXCEPT !.pinch = PinchFrame(ts)]
    /\ UNCHANGED <<session, elsewhere, created, revoked>>
    /\ UNCHANGED <<imageSrc, apiKey, overlay, analysis, isAnalyzing, isDragging,
                   dragStart, isSaving, lastTouchPos, captures, anTasks>>

\* handleTouchMove that zooms only on frames that spread the fingers
handleTouchMoveGrowOnly(ts) ==
    /\ IF imageSrc = 0
       THEN UNCHANGED <<imgState, lastTouchDistance>> /\ gest' = <<>>
       ELSE IF Len(ts) = 1 /\ isDragging
       THEN /\ imgState' = Panned(imgState, ts[1], dragStart)
            /\ gest' = Moved(ts[1])
            /\ UNCHANGED lastTouchDistance
       ELSE IF Len(ts) = 2
       THEN /\ imgState' = IF lastTouchDistance # NoDistance /\ TouchDistance(ts) > lastTouchDistance
                           THEN Zoomed(imgState, (TouchDistance(ts) - lastTouchDistance) * ZoomSpeed)
                           ELSE imgState
            /\ lastTouchDistance' = TouchDistance(ts)
            /\ gest' = <<>>
       ELSE UNCHANGED <<imgState, lastTouchDistance>> /\ gest' = <<>>
    /\ out' = <<>>
    /\ hist' = IF imageSrc = 0 THEN Ignored
               ELSE [Hist("", StillLifted(ts), hist.rot) EXCEPT !.pinch = PinchFrame(ts)]
    /\ UNCHANGED <<session, elsewhere, created, revoked>>
    /\ UNCHANGED <<imageSrc, apiKey, overlay, analysis, isAnalyzing, isDragging,
                   dragStart, isSaving, lastTouchPos, captures, anTasks>>

handleTouchMove(ts) ==
    /\ IF imageSrc = 0
       THEN UNCHANGED <<imgState, lastTouchDistance>> /\ gest' = <<>>
       ELSE IF Len(ts) = 1 /\ isDragging
       THEN /\ imgState' = Panned(imgState, ts[1], dragStart)
            /\ gest' = Moved(ts[1])
            /\ UNCHANGED lastTouchDistance
       ELSE IF Len(ts) = 2
       THEN /\ imgState' = IF lastTouchDistance # NoDistance
                           THEN Zoomed(imgState, (TouchDistance(ts) - lastTouchDistance) * ZoomSpeed)
                           ELSE imgState
            /\ lastTouchDistance' = TouchDistance(ts)
            /\ gest' = <<>>
       ELSE UNCHANGED <<imgState, lastTouchDistance>> /\ gest' = <<>>
    /\ out' = <<>>
    /\ hist' = IF imageSrc = 0 THEN Ignored
               ELSE [Hist("", StillLifted(ts), hist.rot) EXCEPT !.pinch = PinchFrame(ts)]
    /\ UNCHANGED <<session, elsewhere, created, revoked>>
    /\ UNCHANGED <<imageSrc, apiKey, overlay, analysis, isAnalyzing, isDragging,
                   dragStart, isSaving, lastTouchPos, captures, anTasks>>

\* handleTouchEnd that forgets the pinch reference
handleTouchEndKeepsDistance(ts) ==
    /\ isDragging' = FALSE
    /\ lastTouchPos' = <<>>
    /\ out' = <<>>
    /\ hist' = Hist("", Lifted(ts), hist.rot)
    /\ UNCHANGED <<session, elsewhere, created, revoked>>
    /\ gest' = <<>>
    /\ UNCHANGED <<imageSrc, apiKey, imgState, overlay, analysis, isAnalyzing,
                   dragStart, isSaving, lastTouchDistance, captures, anTasks>>

\* handleTouchEnd that leaves the pan armed
handleTouchEndKeepsDragging(ts) ==
    /\ lastTouchDistance' = NoDistance
    /\ lastTouchPos' = <<>>
    /\ out' = <<>>
    /\ hist' = Hist("", Lifted(ts), hist.rot)
    /\ UNCHANGED <<session, elsewhere, created, revoked>>
    /\ gest' = <<>>
    /\ UNCHANGED <<imageSrc, apiKey, imgState, overlay, analysis, isAnalyzing,
                   isDragging, dragStart, isSaving, captures, anTasks>>

\* bound to onTouchEnd; ts are the touches that remain
handleTouchEnd(ts) ==
    /\ isDragging' = FALSE
    /\ lastTouchDistance' = NoDistance
    /\ lastTouchPos' = <<>>
    /\ out' = <<>>
    /\ hist' = Hist("", Lifted(ts), hist.rot)
    /\ UNCHANGED <<session, elsewhere, created, revoked>>
    /\ gest' = <<>>
    /\ UNCHANGED <<imageSrc, apiKey, imgState, overlay, analysis, isAnalyzing,
                   dragStart, isSaving, captures, anTasks>>

\* onTouchCancel={handleTouchEnd}
onTouchCancel(ts) == handleTouchEnd(ts)

----------------------------------------------------------------------------
(* Export: handleSaveImage and the html2canvas promise it awaits *)

\* a Save button that is not disabled while saving
SaveButtonIgnoresSaving == imageSrc # 0

\* the Save buttons: disabled={isSaving || !imageSrc}
SaveButtonEnabled == ~isSaving /\ imageSrc # 0

\* handleSaveImage up to the await: the container is mounted, so only
\* imageSrc can stop it
callSaveImage ==
    /\ IF imageSrc = 0
       THEN UNCHANGED <<isSaving, captures>>
       ELSE isSaving' = TRUE /\ captures' = captures + 1
    /\ out' = <<>>
    /\ hist' = IF imageSrc = 0 THEN Declined ELSE Quiet
    /\ UNCHANGED <<session, elsewhere, created, revoked>>
    /\ gest' = <<>>
    /\ UNCHANGED <<imageSrc, apiKey, imgState, overlay, analysis, isAnalyzing,
                   isDragging, dragStart, lastTouchDistance, lastTouchPos, anTasks>>

\* a press of a Save button that is not disabled
handleSaveImage == SaveButtonEnabled /\ callSaveImage

\* html2canvas resolved: watermark, then toDataURL, which throws on a tainted
\* canvas (allowTaint: true); catch alerts, finally clears the flag
captureResolved(tainted) ==
    /\ captures > 0
    /\ captures' = captures - 1
    /\ out' = IF tainted THEN <<"alert:save">> ELSE <<"download">>
    /\ hist' = Quiet
    /\ UNCHANGED <<session, elsewhere, created, revoked>>
    /\ isSaving' = FALSE
    /\ gest' = <<>>
    /\ UNCHANGED <<imageSrc, apiKey, imgState, overlay, analysis, isAnalyzing,
                   isDragging, dragStart, lastTouchDistance, lastTouchPos, anTasks>>

\* captureRejected whose catch also resets the view
captureRejectedResetsView ==
    /\ captures > 0
    /\ captures' = captures - 1
    /\ out' = <<"alert:save">>
    /\ hist' = Quiet
    /\ UNCHANGED <<session, elsewhere, created, revoked>>
    /\ isSaving' = FALSE
    /\ imgState' = IdentityImage
    /\ gest' = <<>>
    /\ UNCHANGED <<imageSrc, apiKey, overlay, analysis, isAnalyzing, isDragging,
                   dragStart, lastTouchDistance, lastTouchPos, anTasks>>

\* captureRejected without the finally block
captureRejectedKeepsFlag ==
    /\ captures > 0
    /\ captures' = captures - 1
    /\ out' = <<"alert:save">>
    /\ hist' = Quiet
    /\ UNCHANGED <<session, elsewhere, created, revoked>>
    /\ gest' = <<>>
    /\ UNCHANGED <<imageSrc, apiKey, imgState, overlay, analysis, isAnalyzing,
                   isDragging, dragStart, isSaving, lastTouchDistance, lastTouchPos,
                   anTasks>>

\* html2canvas rejected: catch alerts, finally clears the flag
captureRejected ==
    /\ captures > 0
    /\ captures' = captures - 1
    /\ out' = <<"alert:save">>
    /\ hist' = Quiet
    /\ UNCHANGED <<session, elsewhere, created, revoked>>
    /\ isSaving' = FALSE
    /\ gest' = <<>>
    /\ UNCHANGED <<imageSrc, apiKey, imgState, overlay, analysis, isAnalyzing,
                   isDragging, dragStart, lastTouchDistance, lastTouchPos, anTasks>>

----------------------------------------------------------------------------
(* AI analysis: handleAnalyze and the promises and callbacks it leaves behind *)

\* an analysis button that is not disabled while analyzing
AnalyzeButtonIgnoresAnalyzing == imageSrc # 0

\* the AI Alignment Check button: disabled={isAnalyzing || !imageSrc}
AnalyzeButtonEnabled == ~isAnalyzing /\ imageSrc # 0

Remove(seq, i) == SubSeq(seq, 1, i - 1) \o SubSeq(seq, i + 1, Len(seq))

\* handleAnalyze that clears the verdict before it looks at its guard
callAnalyzeClearsFirst ==
    /\ IF imageSrc = 0 \/ apiKey = ""
       THEN analysis' = 0 /\ UNCHANGED <<isAnalyzing, anTasks>>
       ELSE /\ isAnalyzing' = TRUE
            /\ analysis' = 0
            /\ anTasks' = Append(anTasks, [pc |-> "fetch", img |-> imageSrc])
    /\ out' = <<>>
    /\ hist' = IF imageSrc = 0 \/ apiKey = "" THEN Declined ELSE Quiet
    /\ UNCHANGED <<session, elsewhere, created, revoked>>
    /\ gest' = <<>>
    /\ UNCHANGED <<imageSrc, apiKey, imgState, overlay, isDragging, dragStart,
                   isSaving, lastTouchDistance, lastTouchPos, captures>>

\* handleAnalyze up to the first await: fetch(imageSrc) of the image shown
\* when it is called
callAnalyze ==
    /\ IF imageSrc = 0 \/ apiKey = ""
       THEN UNCHANGED <<isAnalyzing, analysis, anTasks>>
       ELSE /\ isAnalyzing' = TRUE
            /\ analysis' = 0
            /\ anTasks' = Append(anTasks, [pc |-> "fetch", img |-> imageSrc])
    /\ out' = <<>>
    /\ hist' = IF imageSrc = 0 \/ apiKey = "" THEN Declined ELSE Quiet
    /\ UNCHANGED <<session, elsewhere, created, revoked>>
    /\ gest' = <<>>
    /\ UNCHANGED <<imageSrc, apiKey, imgState, overlay, isDragging, dragStart,
                   isSaving, lastTouchDistance, lastTouchPos, captures>>

\* a press of the AI Alignment Check button that is not disabled
handleAnalyze == AnalyzeButtonEnabled /\ callAnalyze

\* fetch and response.blob() resolved: reader.readAsDataURL(blob) is started
fetchResolved(i) ==
    /\ anTasks[i].pc = "fetch"
    /\ anTasks' = [anTasks EXCEPT ![i].pc = "read"]
    /\ out' = <<>>
    /\ hist' = Quiet
    /\ UNCHANGED <<session, elsewhere, created, revoked>>
    /\ gest' = <<>>
    /\ UNCHANGED <<imageSrc, apiKey, imgState, overlay, analysis, isAnalyzing,
                   isDragging, dragStart, isSaving, lastTouchDistance, lastTouchPos,
                   captures>>

\* fetchRejected whose catch also puts the view back
fetchRejectedResetsView(i) ==
    /\ anTasks[i].pc = "fetch"
    /\ anTasks' = Remove(anTasks, i)
    /\ out' = <<"alert:process">>
    /\ hist' = Quiet
    /\ UNCHANGED <<session, elsewhere, created, revoked>>
    /\ isAnalyzing' = FALSE
    /\ imgState' = IdentityImage
    /\ gest' = <<>>
    /\ UNCHANGED <<imageSrc, apiKey, overlay, analysis, isDragging,
                   dragStart, isSaving, lastTouchDistance, lastTouchPos, captures>>

\* fetch or response.blob() rejected: the outer catch
fetchRejected(i) ==
    /\ anTasks[i].pc = "fetch"
    /\ anTasks' = Remove(anTasks, i)
    /\ out' = <<"alert:process">>
    /\ hist' = Quiet
    /\ UNCHANGED <<session, elsewhere, created, revoked>>
    /\ isAnalyzing' = FALSE
    /\ gest' = <<>>
    /\ UNCHANGED <<imageSrc, apiKey, imgState, overlay, analysis, isDragging,
                   dragStart, isSaving, lastTouchDistance, lastTouchPos, captures>>

\* reader.onloadend.  With a result the delegate is called; after a read error
\* reader.result is null and base64data.split throws before the inner try
readEnded(i, hasResult) ==
    /\ anTasks[i].pc = "read"
    /\ anTasks' = IF hasResult THEN [anTasks EXCEPT ![i].pc = "delegate"]
                  ELSE Remove(anTasks, i)
    /\ out' = <<>>
    /\ hist' = Quiet
    /\ UNCHANGED <<session, elsewhere, created, revoked>>
    /\ gest' = <<>>
    /\ UNCHANGED <<imageSrc, apiKey, imgState, overlay, analysis, isAnalyzing,
                   isDragging, dragStart, isSaving, lastTouchDistance, lastTouchPos,
                   captures>>

\* analyzeAlignmentImage resolved: setAnalysis(result), finally clears the flag
delegateResolved(i) ==
    /\ anTasks[i].pc = "delegate"
    /\ anTasks' = Remove(anTasks, i)
    /\ analysis' = anTasks[i].img
    /\ isAnalyzing' = FALSE
    /\ out' = <<>>
    /\ hist' = Quiet
    /\ UNCHANGED <<session, elsewhere, created, revoked>>
    /\ gest' = <<>>
    /\ UNCHANGED <<imageSrc, apiKey, imgState, overlay, isDragging, dragStart,
                   isSaving, lastTouchDistance, lastTouchPos, captures>>

\* analyzeAlignmentImage rejected: the inner catch alerts, finally clears the flag
delegateRejected(i) ==
    /\ anTasks[i].pc = "delegate"
    /\ anTasks' = Remove(anTasks, i)
    /\ isAnalyzing' = FALSE
    /\ out' = <<"alert:ai">>
    /\ hist' = Quiet
    /\ UNCHANGED <<session, elsewhere, created, revoked>>
    /\ gest' = <<>>
    /\ UNCHANGED <<imageSrc, apiKey, imgState, overlay, analysis, isDragging,
                   dragStart, isSaving, lastTouchDistance, lastTouchPos, captures>>

----------------------------------------------------------------------------
\* the gestures on the interactive area, with upload and reset
GestureNext ==
    \/ handleFileChange
    \/ handleReset
    \/ \E p \in Points : handleMouseDown(p)
    \/ \E p \in Points : handleMouseMove(p)
    \/ handleMouseUp
    \/ onMouseLeave
    \/ \E d \in WheelDeltas : handleWheel(d)
    \/ \E ts \in TouchLists : handleTouchStart(ts)
    \/ \E ts \in TouchLists : handleTouchMove(ts)
    \/ \E ts \in RemainingLists : handleTouchEnd(ts)
    \/ \E ts \in RemainingLists : onTouchCancel(ts)

\* the touch gestures alone, with upload and reset
TouchNext ==
    \/ handleFileChange
    \/ handleReset
    \/ \E ts \in TouchLists : handleTouchStart(ts)
    \/ \E ts \in TouchLists : handleTouchMove(ts)
    \/ \E ts \in RemainingLists : handleTouchEnd(ts)

\* a pinch followed frame by frame, from scales the wheel has set
PinchNext ==
    \/ handleFileChange
    \/ handleReset
    \/ \E d \in WheelDeltas : handleWheel(d)
    \/ \E ts \in PinchFrames : handleTouchStart(ts)
    \/ \E ts \in PinchFrames : handleTouchMove(ts)
    \/ handleTouchEnd(<<>>)

\* the gestures together with the rotation controls
CanvasNext ==
    \/ GestureNext
    \/ pressRotate(MaxRot)
    \/ \E v \in SliderValues : setRotation(v)

\* export and analysis, with the controls that change what they must preserve
AsyncNext ==
    \/ \E k \in Keys : handleSaveKey(k)
    \/ handleFileChange
    \/ handleReset
    \/ \E t \in OverlayTypes : setOverlayType(t)
    \/ \E c \in Colors : setOverlayColor(c)
    \/ pressRotate(MaxRot)
    \/ \E d \in WheelDeltas : handleWheel(d)
    \/ handleSaveImage
    \/ \E tainted \in BOOLEAN : captureResolved(tainted)
    \/ captureRejected
    \/ handleAnalyze
    \/ \E i \in 1..Len(anTasks) : fetchResolved(i)
    \/ \E i \in 1..Len(anTasks) : fetchRejected(i)
    \/ \E i \in 1..Len(anTasks) : \E r \in BOOLEAN : readEnded(i, r)
    \/ \E i \in 1..Len(anTasks) : delegateResolved(i)
    \/ \E i \in 1..Len(anTasks) : delegateRejected(i)

\* exports and analyses, with the two triggers also called when no image is
\* loaded (their buttons are disabled then, so only a direct call arrives)
GuardNext ==
    \/ AsyncNext
    \/ imageSrc = 0 /\ callAnalyze
    \/ imageSrc = 0 /\ callSaveImage

\* the rotation buttons, with the controls that restart the rotation
StepsNext ==
    \/ handleFileChange
    \/ handleReset
    \/ \E t \in OverlayTypes : setOverlayType(t)
    \/ \E d \in WheelDeltas : handleWheel(d)
    \/ pressRotate(MaxTurn)

\* the rotation buttons and the rotation slider
RotationNext ==
    \/ StepsNext
    \/ \E v \in SliderValues : setRotation(v)

\* adjustRotation as a function of its delta
AdjustNext ==
    \/ handleFileChange
    \/ handleReset
    \/ \E t \in OverlayTypes : setOverlayType(t)
    \/ \E d \in WheelDeltas : handleWheel(d)
    \/ adjustAny

\* the controls of the session's group
SessionNext ==
    \/ session = "gesture" /\ GestureNext
    \/ session = "async" /\ AsyncNext
    \/ session = "rotation" /\ RotationNext

\* a session of gestures on the canvas
SpecGesture == Init /\ [][GestureNext]_vars

\* a session of touch gestures
SpecTouch == Init /\ [][TouchNext]_vars

\* a session of pinches followed frame by frame
SpecPinch == InitPinch /\ [][PinchNext]_vars

\* a session of gestures and rotation changes
SpecCanvas == Init /\ [][CanvasNext]_vars

\* a session of exports and analyses
SpecAsync == Init /\ [][AsyncNext]_vars
\* a session of exports and analyses with triggers that arrive without an image
SpecGuard == Init /\ [][GuardNext]_vars

\* a session of presses of the rotation buttons
SpecSteps == Init /\ [][StepsNext]_vars

\* a session of rotation changes
SpecRotation == Init /\ [][RotationNext]_vars

\* adjustRotation applied to deltas drawn from the two-decimal ones
SpecAdjust == Init /\ [][AdjustNext]_vars

\* a session of any one group of controls
SpecSession == InitSession /\ [][SessionNext]_vars

\* exports and analyses whose html2canvas promise always settles
CaptureSettles == captureRejected \/ \E tainted \in BOOLEAN : captureResolved(tainted)

LiveAsync == SpecAsync /\ WF_vars(CaptureSettles)

----------------------------------------------------------------------------
(* Functions applied on their own.  Each action applies one function of the *)
(* source to arguments drawn from a bounded set and keeps the arguments and *)
(* the result in probe.                                                     *)

\* the rest of the state, which an application leaves alone
Aside == UNCHANGED <<imageSrc, apiKey, alignmentVars, session, hostVars, timegrapherVars>>

CanvasWidths == 0..MaxCanvasWidth

\* a watermark font that is the percentage alone
WatermarkFontNoFloor(w) == FontPercent * w

\* fontSize = Math.max(24, canvas.width * 0.03), in hundredths of a pixel
WatermarkFont(w) == Max(FontFloor * 100, FontPercent * w)

\* the watermark of handleSaveImage drawn on a canvas w pixels wide
drawWatermark(w) ==
    /\ probe' = <<"font", w, WatermarkFont(w)>>
    /\ Aside

WatermarkNext == \E w \in CanvasWidths : drawWatermark(w)

\* the values a metric of each type is classified for, in tenths of its unit
MetricTypes == {"rate", "amp", "beat"}

MetricValues(type) ==
    IF type = "rate" THEN (0 - MaxRate)..MaxRate
    ELSE IF type = "amp" THEN 0..MaxAmp
    ELSE 0..MaxBeat

\* getMetricStatus whose rate case leaves out Math.abs
getMetricStatusSigned(type, value) ==
    IF type = "rate"
    THEN IF value <= RateGood THEN "good"
         ELSE IF value <= RateWarn THEN "warn"
         ELSE "bad"
    ELSE IF type = "amp"
    THEN IF value >= AmpGoodMin /\ value <= AmpGoodMax THEN "good"
         ELSE IF value >= AmpWarnMin THEN "warn"
         ELSE "bad"
    ELSE IF type = "beat"
    THEN IF value <= BeatGood THEN "good"
         ELSE IF value <= BeatWarn THEN "warn"
         ELSE "bad"
    ELSE "warn"

\* Timegrapher.getMetricStatus: the switch over the metric type, with its
\* fall-through return
getMetricStatus(type, value) ==
    IF type = "rate"
    THEN IF Abs(value) <= RateGood THEN "good"
         ELSE IF Abs(value) <= RateWarn THEN "warn"
         ELSE "bad"
    ELSE IF type = "amp"
    THEN IF value >= AmpGoodMin /\ value <= AmpGoodMax THEN "good"
         ELSE IF value >= AmpWarnMin THEN "warn"
         ELSE "bad"
    ELSE IF type = "beat"
    THEN IF value <= BeatGood THEN "good"
         ELSE IF value <= BeatWarn THEN "warn"
         ELSE "bad"
    ELSE "warn"

\* a metric card of the Timegrapher view classifies its value
showMetric(type, value) ==
    /\ probe' = <<"status", type, value, getMetricStatus(type, value)>>
    /\ Aside

MetricNext == \E type \in MetricTypes : \E value \in MetricValues(type) : showMetric(type, value)

\* the classification of metrics of any value
SpecMetric == Init /\ [][MetricNext]_vars

\* the export watermark on canvases of any width
SpecWatermark == Init /\ [][WatermarkNext]_vars

----------------------------------------------------------------------------
(* The host shell (App) and the Timegrapher view, in the version that is    *)
(* handed the API key (src/unnamed/part_001).  App renders QCAlignment or   *)
(* Timegrapher by mode, so a change of mode unmounts one view and mounts    *)
(* the other with its initial state; what the promises of an unmounted view *)
(* do later reaches no state and is not followed.                           *)

Modes == {"alignment", "timegrapher"}

\* the messages setError is given: the missing key, the outer catch, and
\* err.message || "Analysis failed" of the inner catch
KeyMessage == "Please enter your Google API Key in Settings to use AI analysis."
ProcessMessage == "Could not process image"
FailedMessage == "Analysis failed"

\* a change of mode that drops the image of the view it leaves
setModeDropsImage(m) ==
    /\ mode' = m
    /\ imageSrc' = IF m # mode /\ mode = "alignment" THEN 0 ELSE imageSrc
    /\ timegrapherImage' = IF m # mode /\ mode = "timegrapher" THEN 0 ELSE timegrapherImage
    /\ UNCHANGED <<apiKey, alignmentVars, session, created, revoked, timegrapherVars, probe>>

\* the header's Alignment and Timegrapher AI buttons: setMode(m)
setMode(m) ==
    /\ mode' = m
    /\ IF m = mode
       THEN UNCHANGED <<alignmentVars, timegrapherVars>>
       ELSE /\ imgState' = IdentityImage
            /\ overlay' = [type |-> "indices", color |-> Palette[1], rotation |-> 0,
                           scale |-> OverlayScaleDefault, offsetX |-> 0, offsetY |-> 0]
            /\ analysis' = 0
            /\ isAnalyzing' = FALSE
            /\ isDragging' = FALSE
            /\ dragStart' = Pt(0, 0)
            /\ isSaving' = FALSE
            /\ lastTouchDistance' = NoDistance
            /\ lastTouchPos' = <<>>
            /\ captures' = 0
            /\ anTasks' = <<>>
            /\ out' = <<>>
            /\ gest' = <<>>
            /\ hist' = Hist("", <<>>, 0)
            /\ metrics' = 0
            /\ loading' = FALSE
            /\ error' = ""
            /\ tgTasks' = <<>>
    /\ UNCHANGED <<imageSrc, apiKey, session, timegrapherImage, created, revoked, probe>>

\* what a handler of the Timegrapher view leaves alone
TimegrapherFrame == UNCHANGED <<imageSrc, apiKey, alignmentVars, session, mode, probe>>

\* Timegrapher.handleFileChange with a file chosen: onUpload is the host's
\* handleImageUpload(file, TIMEGRAPHER)
tgFileChange ==
    /\ mode = "timegrapher"
    /\ timegrapherImage < MaxImages
    /\ timegrapherImage' = created + 1
    /\ created' = created + 1
    /\ revoked' = Revoked(timegrapherImage)
    /\ metrics' = 0
    /\ error' = ""
    /\ UNCHANGED <<loading, tgTasks>>
    /\ TimegrapherFrame

\* the Analyze with AI button: rendered with an image, disabled={loading}
tgAnalyzeEnabled == mode = "timegrapher" /\ timegrapherImage # 0 /\ ~loading

\* Timegrapher.handleAnalyze up to the first await
tgAnalyze ==
    /\ tgAnalyzeEnabled
    /\ IF timegrapherImage = 0
       THEN UNCHANGED timegrapherVars
       ELSE IF apiKey = ""
       THEN error' = KeyMessage /\ UNCHANGED <<metrics, loading, tgTasks>>
       ELSE /\ loading' = TRUE
            /\ error' = ""
            /\ metrics' = 0
            /\ tgTasks' = Append(tgTasks, [pc |-> "fetch", img |-> timegrapherImage])
    /\ UNCHANGED <<timegrapherImage, created, revoked>>
    /\ TimegrapherFrame

\* fetch and response.blob() resolved: reader.readAsDataURL(blob) is started
tgFetchResolved(i) ==
    /\ tgTasks[i].pc = "fetch"
    /\ tgTasks' = [tgTasks EXCEPT ![i].pc = "read"]
    /\ UNCHANGED <<metrics, loading, error, timegrapherImage, created, revoked>>
    /\ TimegrapherFrame

\* fetch or response.blob() rejected: the outer catch
tgFetchRejected(i) ==
    /\ tgTasks[i].pc = "fetch"
    /\ tgTasks' = Remove(tgTasks, i)
    /\ error' = ProcessMessage
    /\ loading' = FALSE
    /\ UNCHANGED <<metrics, timegrapherImage, created, revoked>>
    /\ TimegrapherFrame

\* reader.onloadend.  With a result the service is called; after a read error
\* reader.result is null and base64data.split throws before the inner try
tgReadEnded(i, hasResult) ==
    /\ tgTasks[i].pc = "read"
    /\ tgTasks' = IF hasResult THEN [tgTasks EXCEPT ![i].pc = "service"]
                  ELSE Remove(tgTasks, i)
    /\ UNCHANGED <<metrics, loading, error, timegrapherImage, created, revoked>>
    /\ TimegrapherFrame

\* analyzeTimegrapherImage resolved: setMetrics(result), finally
tgServiceResolved(i) ==
    /\ tgTasks[i].pc = "service"
    /\ tgTasks' = Remove(tgTasks, i)
    /\ metrics' = tgTasks[i].img
    /\ loading' = FALSE
    /\ UNCHANGED <<error, timegrapherImage, created, revoked>>
    /\ TimegrapherFrame

\* analyzeTimegrapherImage rejected: setError(err.message || ...), finally
tgServiceRejected(i) ==
    /\ tgTasks[i].pc = "service"
    /\ tgTasks' = Remove(tgTasks, i)
    /\ error' = FailedMessage
    /\ loading' = FALSE
    /\ UNCHANGED <<metrics, timegrapherImage, created, revoked>>
    /\ TimegrapherFrame

\* the host shell with the Timegrapher view: the mode buttons, the settings
\* field, the uploads of both views and the Timegrapher analysis
HostNext ==
    \/ \E m \in Modes : setMode(m)
    \/ \E k \in Keys : handleSaveKey(k)
    \/ mode = "alignment" /\ handleFileChange
    \/ tgFileChange
    \/ tgAnalyze
    \/ \E i \in 1..Len(tgTasks) : tgFetchResolved(i)
    \/ \E i \in 1..Len(tgTasks) : tgFetchRejected(i)
    \/ \E i \in 1..Len(tgTasks) : \E r \in BOOLEAN : tgReadEnded(i, r)
    \/ \E i \in 1..Len(tgTasks) : tgServiceResolved(i)
    \/ \E i \in 1..Len(tgTasks) : tgServiceRejected(i)

\* a session in the host shell
SpecHost == Init /\ [][HostNext]_vars

----------------------------------------------------------------------------
(* geminiService.  A message is the sequence of its pieces, cut so that     *)
(* String.includes("API Key") is a test for one piece.  Both versions of    *)
(* the two functions are followed: "argument" takes the key as an argument, *)
(* "environment" reads process.env.API_KEY.                                 *)

ServiceVersions == {"argument", "environment"}
ServiceFunctions == {"timegrapher", "alignment"}
MimeTypes == {"image/png", "image/jpeg"}

MissingKey(version) ==
    IF version = "argument"
    THEN <<"API Key", " is missing. Please set it in the settings.">>
    ELSE <<"API Key", " is missing. Please configure the API_KEY environment variable.">>

\* the fixed message of the catch of the "argument" version
GenericFailure(fn) ==
    IF fn = "timegrapher"
    THEN <<"Failed to analyze timegrapher image. Please check your ", "API Key", " or try again.">>
    ELSE <<"Failed to analyze alignment. Please check your ", "API Key", ".">>

\* the prefix the catch of the "environment" version puts before a message
FailurePrefix(fn) ==
    IF fn = "timegrapher" THEN "Analysis failed: " ELSE "Alignment check failed: "

\* the messages generateContent is followed to reject with
ServiceMessages ==
    { <<>>,
      <<"Failed to fetch">>,
      <<"API Key", " not valid. Please pass a valid API key.">>,
      <<"Quota exceeded for ", "API Key">>,
      <<"API key expired">>,
      <<"The model is overloaded.">> }

\* what a call with a key meets: an answer, an answer without text, text
\* that JSON.parse refuses, or a rejection of generateContent
ServiceOutcomes ==
    {[kind |-> k, message |-> <<>>] : k \in {"answer", "no text"}}
    \cup {[kind |-> "bad json", message |-> <<"Unexpected token">>]}
    \cup {[kind |-> "rejected", message |-> m] : m \in ServiceMessages}

Includes(message, piece) == \E i \in 1..Len(message) : message[i] = piece

\* what is thrown inside the try for an outcome other than an answer
Thrown(outcome) ==
    IF outcome.kind = "no text" THEN <<"No response from AI">> ELSE outcome.message

\* the catch of the "environment" version
Rethrown(fn, message) ==
    LET errorMessage == IF message = <<>> THEN <<"Unknown error">> ELSE message
    IN  IF Includes(errorMessage, "API Key") THEN errorMessage
        ELSE <<FailurePrefix(fn)>> \o errorMessage

Settled(requests, state, message) ==
    [requests |-> requests, state |-> state, message |-> message]

\* the two functions with every error given the message of a failed analysis
analyzeImageWrapsAll(version, fn, mimeType, hasKey, outcome) ==
    IF ~hasKey
    THEN Settled(<<>>, "rejected",
                 IF version = "argument" THEN GenericFailure(fn)
                 ELSE <<FailurePrefix(fn)>> \o MissingKey(version))
    ELSE IF outcome.kind = "answer" THEN Settled(<<mimeType>>, "fulfilled", <<>>)
    ELSE Settled(<<mimeType>>, "rejected",
                 IF version = "argument" THEN GenericFailure(fn)
                 ELSE <<FailurePrefix(fn)>> \o Thrown(outcome))

\* analyzeTimegrapherImage and analyzeAlignmentImage: the requests issued
\* (one generateContent with the image's mime type) and how the promise settles
analyzeImage(version, fn, mimeType, hasKey, outcome) ==
    IF ~hasKey
    THEN Settled(<<>>, "rejected",
                 IF version = "argument" THEN MissingKey(version)
                 ELSE Rethrown(fn, MissingKey(version)))
    ELSE IF outcome.kind = "answer" THEN Settled(<<mimeType>>, "fulfilled", <<>>)
    ELSE Settled(<<mimeType>>, "rejected",
                 IF version = "argument" THEN GenericFailure(fn)
                 ELSE Rethrown(fn, Thrown(outcome)))

callService(version, fn, mimeType, hasKey, outcome) ==
    /\ probe' = <<"service", version, fn, hasKey, mimeType, outcome,
                  analyzeImage(version, fn, mimeType, hasKey, outcome)>>
    /\ Aside

ServiceNext ==
    \E version \in ServiceVersions, fn \in ServiceFunctions, mimeType \in MimeTypes,
       hasKey \in BOOLEAN, outcome \in ServiceOutcomes :
        callService(version, fn, mimeType, hasKey, outcome)

SpecService == Init /\ [][ServiceNext]_vars

----------------------------------------------------------------------------
(* compressImage.  The dimensions are the numbers the code computes, kept   *)
(* exact as fractions <<numerator, denominator>>; the rounding of the       *)
(* floating-point product and the truncation of the canvas size to whole    *)
(* pixels are not followed.                                                 *)

Sides == 0..MaxSide
Limits == 1..MaxLimit

\* what the image element does with the object URL, and whether the canvas
\* gives a 2d context
LoadOutcomes == {"load", "no context", "error"}

Whole(n) == <<n, 1>>
Times(n, num, den) == <<n * num, den>>
FracLeq(f, n) == f[1] <= n * f[2]
FracEq(f, g) == f[1] * g[2] = g[1] * f[2]

\* the dimensions with the larger side always brought to maxWidth
FitAlways(width, height, maxWidth) ==
    IF width > height
    THEN [width |-> Whole(maxWidth), height |-> Times(height, maxWidth, width)]
    ELSE IF height = 0 THEN [width |-> Whole(width), height |-> Whole(height)]
    ELSE [width |-> Times(width, maxWidth, height), height |-> Whole(maxWidth)]

\* img.onload: "Calculate new dimensions keeping aspect ratio"
Fit(width, height, maxWidth) ==
    IF width > maxWidth \/ height > maxWidth
    THEN IF width > height
         THEN [width |-> Whole(maxWidth), height |-> Times(height, maxWidth, width)]
         ELSE [width |-> Times(width, maxWidth, height), height |-> Whole(maxWidth)]
    ELSE [width |-> Whole(width), height |-> Whole(height)]

\* compressImage(blob, maxWidth) for an image of width x height: the size of
\* the canvas and, in order, the calls of URL.revokeObjectURL, resolve and
\* reject made by img.onload or img.onerror
compressImage(width, height, maxWidth, outcome) ==
    IF outcome = "error"
    THEN [size |-> <<>>, calls |-> <<"revokeObjectURL", "reject">>]
    ELSE IF outcome = "no context"
    THEN [size |-> Fit(width, height, maxWidth), calls |-> <<"revokeObjectURL", "reject">>]
    ELSE [size |-> Fit(width, height, maxWidth), calls |-> <<"revokeObjectURL", "resolve">>]

\* how many of the calls are calls of one of the functions named
Calls(calls, names) == Cardinality({i \in 1..Len(calls) : calls[i] \in names})

callCompress(width, height, maxWidth, outcome) ==
    /\ probe' = <<"compress", width, height, maxWidth, outcome,
                  compressImage(width, height, maxWidth, outcome)>>
    /\ Aside

CompressNext ==
    \E width \in Sides, height \in Sides, maxWidth \in Limits, outcome \in LoadOutcomes :
        callCompress(width, height, maxWidth, outcome)

SpecCompress == Init /\ [][CompressNext]_vars

----------------------------------------------------------------------------
(* Properties *)

\* C1: in every reachable state of the canvas the scale lies in [0.1, 10],
\* whatever wheel, pinch, pan, rotation, reset and upload events came before.
ScaleClamped == MinScale <= imgState.scale /\ imgState.scale <= MaxScale

\* a pinch has driven the scale to the upper bound
ScaleClampedWitness == imgState.scale = MaxScale /\ lastTouchDistance # NoDistance

\* C2: after a press at P with translate T, followed only by moves, the last
\* one to Q, translate is T + (Q - P), however many moves there were.
PanAnchored ==
    gest # <<>> =>
        /\ imgState.x = gest[2].x + (gest[3].x - gest[1].x)
        /\ imgState.y = gest[2].y + (gest[3].y - gest[1].y)

\* a drag that started from a translated image and has moved away from the press
PanAnchoredWitness ==
    /\ gest # <<>>
    /\ gest[2] # Pt(0, 0)
    /\ gest[3] # gest[1]

\* C3: at most one export capture is in flight at any time.
OneCaptureInFlight == captures <= 1 /\ (captures = 1 => isSaving)

\* a capture is in flight and the Save buttons are disabled
OneCaptureInFlightWitness == captures = 1 /\ isSaving /\ ~SaveButtonEnabled

\* C4: an export whose capture fails leaves the image transform and the
\* overlay as they were, delivers no file and reports exactly one error; the
\* step that starts the export leaves them unchanged as well.
captureFailed == captureRejected \/ captureResolved(TRUE)

FailedExportPreserves ==
    [][/\ handleSaveImage => UNCHANGED <<imgState, overlay>>
       /\ captureFailed => /\ UNCHANGED <<imgState, overlay>>
                           /\ out' = <<"alert:save">>]_vars

\* a failed export of a zoomed image under the grid overlay has just been reported
FailedExportWitness ==
    /\ out = <<"alert:save">>
    /\ imgState.scale # IdentityImage.scale
    /\ overlay.type = "grid"

\* C5: every export that sets the saving flag eventually clears it, so the
\* Save buttons become usable again.
SavingEventuallyCleared == isSaving ~> (~isSaving /\ SaveButtonEnabled)

\* an export has finished with a download and the Save buttons are enabled again
SavingClearedWitness == out = <<"download">> /\ ~isSaving /\ SaveButtonEnabled

\* C6: once no analysis request remains unfinished, on whatever path it
\* finished, the analysis-in-flight flag is false.
AnalyzingClearedOnCompletion == anTasks = <<>> => ~isAnalyzing

\* C7: at most one analysis request is in flight per session.
OneAnalysisInFlight == Len(anTasks) <= 1 /\ (Len(anTasks) = 1 => isAnalyzing)

\* the delegate call of the single request is in flight
OneAnalysisInFlightWitness ==
    Len(anTasks) = 1 /\ anTasks[1].pc = "delegate" /\ ~AnalyzeButtonEnabled

\* C8: a held analysis result was computed from the image currently shown.
StaleAnalysisDiscarded == analysis # 0 => analysis = imageSrc

\* C9 as stated: every gesture-end event clears the dragging flag and the
\* pinch reference.
gestureEnded ==
    \/ handleMouseUp
    \/ onMouseLeave
    \/ \E ts \in RemainingLists : handleTouchEnd(ts)
    \/ \E ts \in RemainingLists : onTouchCancel(ts)

ReanchoredAfterPinch ==
    [][\A p \in Points :
        (imageSrc # 0 /\ lastTouchDistance # NoDistance /\ handleTouchEnd(<<p>>))
            => (isDragging' /\ dragStart' = Anchor(p, imgState'))]_vars

\* C11: after a one-finger pan is interrupted by a pinch and one touch is
\* lifted, the lift itself leaves the translate as it was, and every later
\* one-touch move frame changes the translate, on each axis, by no more than the
\* remaining finger moved since the frame before.
NoPanJump ==
    [][/\ (hist.lifted = <<>> /\ hist'.lifted # <<>>) =>
            (imgState'.x = imgState.x /\ imgState'.y = imgState.y)
       /\ (hist.lifted # <<>> /\ hist'.lifted # <<>>) =>
            /\ Abs(imgState'.x - imgState.x) <= Abs(hist'.lifted[2].x - hist.lifted[2].x)
            /\ Abs(imgState'.y - imgState.y) <= Abs(hist'.lifted[2].y - hist.lifted[2].y)]_vars

\* a finger left by a pinch has moved on, after a pan and a pinch that both changed the view
NoPanJumpWitness ==
    /\ hist.lifted # <<>>
    /\ hist.lifted[1] # hist.lifted[2]
    /\ imgState.x # 0
    /\ imgState.scale # IdentityImage.scale

\* C12: no touch move carrying two touches changes translateX or translateY,
\* also when the dragging flag of a one-finger pan is still set: every step
\* that changes the translate is something other than a two-touch move.
TwoTouchMoves == \E ts \in TouchLists : Len(ts) = 2 /\ handleTouchMove(ts)

PinchLeavesTranslate ==
    [][(imgState'.x # imgState.x \/ imgState'.y # imgState.y) => ~TwoTouchMoves]_vars

\* a pinch frame has zoomed a panned image while the dragging flag was set
PinchLeavesTranslateWitness ==
    /\ isDragging
    /\ lastTouchDistance # NoDistance
    /\ imgState.scale # IdentityImage.scale
    /\ imgState.x # 0
    /\ dragStart # Pt(0, 0)

\* C13: right after an upload the image transform is the identity and no
\* analysis result is held, whatever the transform and result were before.
UploadResets == hist.last = "upload" => (imgState = IdentityImage /\ analysis = 0)

\* the second image has just been uploaded while the analysis of the first is still running
UploadResetsWitness ==
    /\ hist.last = "upload"
    /\ imageSrc = 2
    /\ anTasks # <<>>
    /\ isAnalyzing

\* C14: Reset sets the image transform to the identity and the overlay
\* geometry (rotation, scale, offsetX, offsetY) to 0, 100, 0, 0, and leaves the
\* overlay kind and colour as they were before it.
ResetFrame ==
    [][handleReset =>
         /\ imgState' = IdentityImage
         /\ overlay'.rotation = 0 /\ overlay'.scale = OverlayScaleDefault
         /\ overlay'.offsetX = 0 /\ overlay'.offsetY = 0
         /\ overlay'.type = overlay.type /\ overlay'.color = overlay.color]_vars

\* Reset has just acted on a grid overlay of the second colour
ResetFrameWitness ==
    /\ hist.last = "reset"
    /\ overlay.type = "grid"
    /\ overlay.color = Palette[2]
    /\ imageSrc # 0

\* C15: Reset is idempotent: a Reset that directly follows a Reset leaves the
\* image transform, which is the identity, and the whole overlay exactly as the
\* first one left them.
ResetIdempotent ==
    [][(hist.last \in {"reset", "reset again"} /\ handleReset) =>
         /\ imgState' = imgState /\ imgState' = IdentityImage
         /\ overlay' = overlay]_vars

\* Reset has acted twice running on a grid overlay of the second colour
ResetIdempotentWitness ==
    /\ hist.last = "reset again"
    /\ overlay.type = "grid"
    /\ overlay.color = Palette[2]
    /\ imageSrc # 0

\* C16: rotation steps do not drift: after any number of presses of the +0.1
\* and -0.1 buttons, in any order, the stored rotation is exactly the rotation
\* they started from plus 0.1 for every + and minus 0.1 for every -, so ten +
\* presses from 0 give exactly 1.00.
RotationExact == imgState.rotation = hist.rot

\* ten more + than - presses since the rotation was 0: exactly one degree
RotationExactWitness == imgState.rotation = 10 * RotStep /\ hist.rot = 10 * RotStep

\* C17: adjustRotation(0) leaves the whole state of the component as it was,
\* and for two-decimal deltas a and b, adjustRotation(a) followed by
\* adjustRotation(b) stores the same rotation as adjustRotation(a + b), the sum
\* a + b being a floating-point one.
AdditiveHere ==
    \A a \in TwoDecimalDeltas : \A b \in TwoDecimalDeltas :
        \A e1 \in FloatErrs : \A e2 \in FloatErrs : \A e3 \in FloatErrs : \A e4 \in FloatErrs :
            AdjustedRotation(AdjustedRotation(imgState.rotation, a, e1), b, e2)
                = AdjustedRotation(imgState.rotation, a + b + e3, e4)

AdjustAdditive ==
    /\ []AdditiveHere
    /\ [][adjustRotation(0) =>
            UNCHANGED <<imageSrc, apiKey, imgState, overlay, analysis, isAnalyzing,
                        isDragging, dragStart, isSaving, lastTouchDistance,
                        lastTouchPos, captures, anTasks>>]_vars

\* a rotation only deltas of hundredths reach: 0.03 on a zoomed image
AdjustAdditiveWitness ==
    /\ imgState.rotation = 3 * FixedUnit
    /\ imgState.scale # IdentityImage.scale
    /\ hist.rot = 3 * FixedUnit

\* C18: in every reachable state the stored rotation is a multiple of 0.01,
\* whether the step buttons or the slider stored it.
RotationTwoDecimals == imgState.rotation % FixedUnit = 0

\* the - button has stored a rotation below every slider value modelled
RotationTwoDecimalsWitness ==
    /\ imgState.rotation = 0 - 2 * RotStep
    /\ hist.rot = imgState.rotation

\* C19: in every reachable state the overlay kind is indices or grid, and the
\* overlay renderer produces a guide that is not empty.
KindSupported ==
    /\ overlay.type \in {"indices", "grid"}
    /\ renderOverlay(overlay) # <<>>

\* the Grid tool was selected and the grid guide is drawn in the second colour
KindSupportedWitness ==
    /\ overlay.type = "grid"
    /\ renderOverlay(overlay) = <<GuideGrid(Palette[2])>>

\* C20: the overlay outlives image swaps and only the tool selections change
\* its kind and colour: every step that changes the kind or the colour is a
\* press of a kind or colour button, and every step that changes the overlay
\* at all is one of those or a Reset; upload, the gestures, the rotation
\* controls, export and analysis leave the whole overlay as it was.
ToolSelected ==
    \/ \E t \in OverlayTypes : setOverlayType(t)
    \/ \E c \in Colors : setOverlayColor(c)

OverlayOnlyByTools ==
    [][/\ (overlay'.type # overlay.type \/ overlay'.color # overlay.color) => ToolSelected
       /\ overlay' # overlay => (ToolSelected \/ handleReset)]_vars

\* a second image has just been uploaded under a grid overlay of the second
\* colour, while an analysis started before the swap is still running
OverlayOnlyByToolsWitness ==
    /\ hist.last = "upload"
    /\ imageSrc = 2
    /\ overlay.type = "grid"
    /\ overlay.color = Palette[2]
    /\ anTasks # <<>>
    /\ session = "async"

\* C21: the analysis never writes the image transform or the overlay: no step
\* of it, and so none of its failure paths (the fetch failing, the read
\* failing, the delegate rejecting), changes either of them.
analysisStep ==
    \/ handleAnalyze
    \/ \E i \in 1..Len(anTasks) :
          \/ fetchResolved(i)
          \/ fetchRejected(i)
          \/ \E r \in BOOLEAN : readEnded(i, r)
          \/ delegateResolved(i)
          \/ delegateRejected(i)

AnalysisPreservesView ==
    [][(imgState' # imgState \/ overlay' # overlay) => ~analysisStep]_vars

\* the delegate has just rejected, on a zoomed and rotated image under a grid overlay
AnalysisPreservesViewWitness ==
    /\ out = <<"alert:ai">>
    /\ imgState.scale # IdentityImage.scale
    /\ imgState.rotation # 0
    /\ overlay.type = "grid"

\* C22: with an image loaded a wheel event changes scale by the fixed step
\* whatever the size of deltaY: up by 0.1 when deltaY < 0, down by 0.1 when
\* deltaY > 0, kept within [0.1, 10]; deltaY = 0 leaves scale as it is.  (A
\* step that leaves scale at anything else is not that wheel event.)
WheelTarget(deltaY) ==
    IF deltaY < 0
    THEN (IF imgState.scale + 100 > 10000 THEN 10000 ELSE imgState.scale + 100)
    ELSE IF deltaY > 0
    THEN (IF imgState.scale - 100 < 100 THEN 100 ELSE imgState.scale - 100)
    ELSE imgState.scale

WheelStepFixed ==
    [][\A deltaY \in WheelDeltas :
         (imageSrc # 0 /\ imgState'.scale # WheelTarget(deltaY)) => ~handleWheel(deltaY)]_vars

\* the wheel has zoomed out of a pinch that had reached the upper bound
WheelStepFixedWitness ==
    /\ imgState.scale = MaxScale - WheelStep
    /\ lastTouchDistance # NoDistance
    /\ hist.lifted = <<>>

\* C23: with an image loaded, a two-touch move at distance d with a recorded
\* reference d0 takes scale to scale + 0.005 * (d - d0) kept within [0.1, 10]
\* and makes d the reference; a touch start with two touches, or a two-touch
\* move with no reference, records d and leaves scale as it is.  (A step that
\* ends otherwise is not that event.)
DistanceIs(ts, d) ==
    /\ d >= 0
    /\ d * d = (ts[2].x - ts[1].x) * (ts[2].x - ts[1].x)
                + (ts[2].y - ts[1].y) * (ts[2].y - ts[1].y)

PinchTarget ==
    IF lastTouchDistance = NoDistance THEN imgState.scale
    ELSE LET s == imgState.scale + 5 * (lastTouchDistance' - lastTouchDistance)
         IN  IF s < 100 THEN 100 ELSE IF s > 10000 THEN 10000 ELSE s

PinchStep ==
    [][\A ts \in TouchLists :
         (Len(ts) = 2 /\ imageSrc # 0) =>
            /\ ~(DistanceIs(ts, lastTouchDistance') /\ imgState'.scale = PinchTarget)
                 => ~handleTouchMove(ts)
            /\ ~(DistanceIs(ts, lastTouchDistance') /\ imgState'.scale = imgState.scale)
                 => ~handleTouchStart(ts)]_vars

\* a pinch frame has zoomed in by half the full step from the identity scale:
\* the fingers went from 1000 to 2000 pixels apart
PinchStepWitness ==
    /\ lastTouchDistance = 2000
    /\ imgState.scale = IdentityImage.scale + ZoomSpeed * 1000
    /\ imgState.x = 0 /\ imgState.y = 0

\* C24: a touch move with no touch, a touch move with three or more touches,
\* a one-touch move while not dragging and a mouse move while not dragging
\* leave the image transform, the dragging flag, the anchor, the pinch
\* reference and the last touch position as they were.  (A step that changes
\* any of them is none of these events.)
malformedMove ==
    \/ \E ts \in TouchLists :
          /\ Len(ts) = 0 \/ Len(ts) >= 3 \/ (Len(ts) = 1 /\ ~isDragging)
          /\ handleTouchMove(ts)
    \/ ~isDragging /\ \E p \in Points : handleMouseMove(p)

MalformedMovesIgnored ==
    [][(\/ imgState' # imgState \/ isDragging' # isDragging \/ dragStart' # dragStart
        \/ lastTouchDistance' # lastTouchDistance \/ lastTouchPos' # lastTouchPos)
         => ~malformedMove]_vars

\* one-touch move frames arrived while not dragging, after a lift, with an
\* anchor of the finished pan still stored
MalformedMovesIgnoredWitness ==
    /\ ~isDragging
    /\ hist.lifted # <<>>
    /\ hist.lifted[1] # hist.lifted[2]
    /\ dragStart # Pt(0, 0)
    /\ lastTouchDistance = NoDistance
    /\ imgState.y # 0

\* C25: replacing the image discards the gesture state: in the state right
\* after an upload the dragging flag is false and no pinch-reference distance
\* is held (so a move that follows without a new press has nothing recorded
\* for the old image to pan or zoom the new one with).
UploadDiscardsGesture ==
    hist.last = "upload" => (~isDragging /\ lastTouchDistance = NoDistance)

\* C26: pinch zoom is path-independent while no clamp is hit: during a
\* two-touch sequence with nothing in between, whose frames all ended
\* strictly between the scale bounds, the scale has changed since the
\* sequence began by 0.005 per pixel of (current reference distance minus
\* the distance the sequence began with), whatever the number of frames and
\* the distances in between.
PinchPathIndependent ==
    hist.pinch # <<>> =>
        imgState.scale - hist.pinch[1] = ZoomSpeed * (lastTouchDistance - hist.pinch[2])

\* three or more frames have followed a sequence begun away from the identity
\* scale, and fingers and scale are not where it began
PinchPathIndependentWitness ==
    /\ hist.pinch # <<>>
    /\ hist.pinch[3] = MaxFrames
    /\ hist.pinch[1] # IdentityImage.scale
    /\ lastTouchDistance # hist.pinch[2]
    /\ imgState.scale # hist.pinch[1]

\* C27: each transform operation changes only its own fields: a wheel step
\* and a two-touch move change neither x, y nor the rotation; a mouse move and
\* a one-touch move change neither the scale nor the rotation; adjustRotation
\* and the rotation slider change neither the scale, x nor y; and none of
\* them changes the analysis result or the saving and analyzing flags.
zoomStep ==
    \/ \E d \in WheelDeltas : handleWheel(d)
    \/ \E ts \in TouchLists : Len(ts) = 2 /\ handleTouchMove(ts)

panStep ==
    \/ \E p \in Points : handleMouseMove(p)
    \/ \E ts \in TouchLists : Len(ts) = 1 /\ handleTouchMove(ts)

rotateStep ==
    \/ \E d \in {0 - RotStep, RotStep} : adjustRotation(d)
    \/ \E v \in SliderValues : setRotation(v)

TransformFrames ==
    [][/\ (\/ imgState'.x # imgState.x \/ imgState'.y # imgState.y
           \/ imgState'.rotation # imgState.rotation) => ~zoomStep
       /\ (\/ imgState'.scale # imgState.scale
           \/ imgState'.rotation # imgState.rotation) => ~panStep
       /\ (\/ imgState'.scale # imgState.scale \/ imgState'.x # imgState.x
           \/ imgState'.y # imgState.y) => ~rotateStep
       /\ (\/ analysis' # analysis \/ isSaving' # isSaving
           \/ isAnalyzing' # isAnalyzing) => ~(zoomStep \/ panStep \/ rotateStep)]_vars

\* the image has been zoomed and turned while an export is running and a
\* verdict is stored
TransformFramesWitness ==
    /\ session = "async"
    /\ isSaving
    /\ analysis # 0
    /\ imgState.scale = IdentityImage.scale + WheelStep
    /\ imgState.rotation = 0 - RotStep
    /\ hist.last = ""

\* C28: with no image loaded, mouse down, wheel, touch start and touch move
\* leave the scale, x, y, the dragging flag, the anchor, the pinch reference
\* and the last touch position as they were; and in every reachable state a
\* true dragging flag or a recorded pinch reference implies that an image is
\* loaded.
noImageEvent ==
    /\ imageSrc = 0
    /\ \/ \E p \in Points : handleMouseDown(p)
       \/ \E d \in WheelDeltas : handleWheel(d)
       \/ \E ts \in TouchLists : handleTouchStart(ts)
       \/ \E ts \in TouchLists : handleTouchMove(ts)

NoImageInert ==
    /\ []((isDragging \/ lastTouchDistance # NoDistance) => imageSrc # 0)
    /\ [][(\/ imgState'.scale # imgState.scale \/ imgState'.x # imgState.x
            \/ imgState'.y # imgState.y \/ isDragging' # isDragging
            \/ dragStart' # dragStart \/ lastTouchDistance' # lastTouchDistance
            \/ lastTouchPos' # lastTouchPos) => ~noImageEvent]_vars

\* one of the four events has just arrived with no image loaded
NoImageInertWitness ==
    /\ hist.last = "ignored"
    /\ imageSrc = 0
    /\ imgState = IdentityImage
    /\ ~isDragging
    /\ lastTouchDistance = NoDistance

\* C29: in every reachable state the overlay geometry holds its defaults:
\* rotation 0, scale 100, offsetX 0 and offsetY 0; no control changes them.
OverlayGeometryDefault ==
    /\ overlay.rotation = 0
    /\ overlay.scale = OverlayScaleDefault
    /\ overlay.offsetX = 0
    /\ overlay.offsetY = 0

\* the kind and the colour were changed, the image was replaced, and an export
\* of the zoomed view is running
OverlayGeometryDefaultWitness ==
    /\ OverlayGeometryDefault
    /\ overlay.type = "grid"
    /\ overlay.color = Palette[2]
    /\ imageSrc = 2
    /\ imgState.scale # IdentityImage.scale
    /\ isSaving

\* C30: the lines of the Indices guide are a full-width horizontal line, a
\* full-height vertical line and four more full-width lines, and the set of
\* their distinct orientations is exactly {0, 30, 60, 90, 120, 150} degrees:
\* twelve spokes from the centre, 30 degrees apart.  (Lines are counted as
\* drawn: elements that lie on one another are one line.)
IndicesLines ==
    {renderOverlay(overlay)[i] : i \in {k \in 1..Len(renderOverlay(overlay)) :
                                            renderOverlay(overlay)[k].shape = "line"}}

IndicesSpokes ==
    overlay.type = "indices" =>
        /\ {GuideLine(0, overlay.color), GuideLine(90, overlay.color)} \subseteq IndicesLines
        /\ Cardinality(IndicesLines
                         \ {GuideLine(0, overlay.color), GuideLine(90, overlay.color)}) = 4
        /\ \A l \in IndicesLines : l.size = RulerSize /\ l.color = overlay.color
        /\ {l.angle : l \in IndicesLines} = {0, 30, 60, 90, 120, 150}
        /\ {l.angle : l \in IndicesLines} \cup {l.angle + 180 : l \in IndicesLines}
             = {30 * k : k \in 0..11}

\* the Indices guide is drawn in the second colour over a loaded image: eight
\* line elements and two circles
IndicesSpokesWitness ==
    /\ overlay.type = "indices"
    /\ overlay.color = Palette[2]
    /\ imageSrc # 0
    /\ Len(renderOverlay(overlay)) = HourMarkers + 4
    /\ Cardinality(IndicesLines) = HourMarkers

\* C31: the rendered overlay is independent of the image transform: in every
\* state with an image, what the overlay layer draws is the guide that the
\* overlay kind and colour alone determine (the 800-pixel box, the same
\* elements, the same colour), so two states that agree on kind and colour
\* draw the same guide whatever the rotation, scale, x and y of the image.
GuideOf(kind, c) ==
    renderOverlay([type |-> kind, color |-> c, rotation |-> 0,
                   scale |-> OverlayScaleDefault, offsetX |-> 0, offsetY |-> 0])

WatermarkFontRule ==
    (probe # <<>> /\ probe[1] = "font") =>
        /\ probe[3] >= 24 * 100
        /\ probe[3] >= 3 * probe[2]
        /\ probe[2] <= 800 => probe[3] = 24 * 100
        /\ probe[2] > 800 => (probe[3] = 3 * probe[2] /\ probe[3] > 24 * 100)

\* a canvas wider than 800 pixels got a font above the floor
WatermarkFontRuleWitness ==
    /\ probe # <<>>
    /\ probe[1] = "font"
    /\ probe[2] = 1000
    /\ probe[3] = 30 * 100

\* C33: amplitude classification follows the documented bands for every value
\* v: 'good' for 250 <= v <= 310, 'warn' for 230 <= v < 250 or v > 310, and
\* 'bad' for v < 230.
AmpBands ==
    (probe # <<>> /\ probe[1] = "status" /\ probe[2] = "amp") =>
        probe[4] = IF 2500 <= probe[3] /\ probe[3] <= 3100 THEN "good"
                   ELSE IF probe[3] >= 2300 THEN "warn"
                   ELSE "bad"

\* C34: rate classification depends only on the magnitude of the rate: 'good'
\* when |v| <= 5, 'warn' when 5 < |v| <= 15, 'bad' when |v| > 15; so v and -v
\* have the same status, and no rate of larger magnitude has a better status.
StatusRank(status) == IF status = "good" THEN 0 ELSE IF status = "warn" THEN 1 ELSE 2

GuardedTriggers ==
    [][/\ ((imageSrc = 0 \/ apiKey = "") /\ callAnalyze) =>
            /\ anTasks' = anTasks
            /\ ~isAnalyzing'
            /\ analysis' = analysis
       /\ (imageSrc = 0 /\ callSaveImage) =>
            /\ captures' = captures
            /\ ~isSaving']_vars

\* the analysis was declined for the missing key while a verdict was held
GuardedTriggersWitness ==
    /\ hist.last = "declined"
    /\ imageSrc # 0
    /\ apiKey = ""
    /\ analysis # 0
    /\ ~isAnalyzing
    /\ anTasks = <<>>

\* C36: in the Timegrapher view, after any sequence of uploads, analyze
\* triggers and analysis completions, the metrics and the error message are
\* never both set; each analysis that ends leaves exactly one of them set; and
\* an upload clears both.
tgEnded == mode' = mode /\ Len(tgTasks') < Len(tgTasks)

MetricsXorError ==
    /\ [](~(metrics # 0 /\ error # ""))
    /\ [][/\ tgEnded => ((metrics' # 0) # (error' # ""))
          /\ tgFileChange => (metrics' = 0 /\ error' = "")]_vars

\* C37: each mode owns its image in the host shell.  An upload for one mode
\* leaves the image of the other mode alone and revokes the object URL it
\* replaces, a change of mode changes neither image, the object URLs created
\* and not revoked are the images now shown (at most one per mode), and no
\* image shown is a revoked URL.
Unrevoked == (1..created) \ revoked

ImageOwnership ==
    /\ [](/\ imageSrc \notin revoked
          /\ timegrapherImage \notin revoked
          /\ Unrevoked = {imageSrc, timegrapherImage} \ {0}
          /\ imageSrc # 0 => imageSrc # timegrapherImage)
    /\ [][/\ imageSrc' # imageSrc =>
                 timegrapherImage' = timegrapherImage /\ revoked' = Revoked(imageSrc)
          /\ timegrapherImage' # timegrapherImage =>
                 imageSrc' = imageSrc /\ revoked' = Revoked(timegrapherImage)
          /\ mode' # mode =>
                 imageSrc' = imageSrc /\ timegrapherImage' = timegrapherImage]_vars

ImageOwnershipWitness ==
    /\ mode = "alignment"
    /\ imageSrc # 0
    /\ timegrapherImage # 0
    /\ imageSrc \in Unrevoked
    /\ timegrapherImage \in Unrevoked
    /\ revoked # {}

\* C38: called with no API key, analyzeTimegrapherImage and
\* analyzeAlignmentImage issue no request and reject with the 'API Key is
\* missing' message of getGenAI as it was thrown, neither replaced by the
\* generic failure message nor with a failure prefix put before it.
serviceCalled == probe # <<>> /\ probe[1] = "service"

MissingKeyUnwrapped ==
    serviceCalled /\ ~probe[4] =>
        /\ probe[7].requests = <<>>
        /\ probe[7].state = "rejected"
        /\ probe[7].message = MissingKey(probe[2])
        /\ probe[7].message # GenericFailure(probe[3])
        /\ probe[7].message[1] # FailurePrefix(probe[3])

MissingKeyUnwrappedWitness ==
    /\ serviceCalled
    /\ ~probe[4]
    /\ probe[2] = "environment"
    /\ probe[3] = "alignment"
    /\ probe[7].message = MissingKey("environment")

\* C39: compressImage never upscales and bounds its output.  For an image of
\* w x h and a limit m: if w <= m and h <= m the output is w x h; otherwise
\* the larger side becomes exactly m and the other side is scaled by the same
\* factor, so that both sides are at most m; and on the load path and on the
\* error path the promise settles exactly once and the temporary object URL
\* is revoked exactly once.
compressCalled == probe # <<>> /\ probe[1] = "compress"

CompressBounded ==
    compressCalled =>
        LET w == probe[2]
            h == probe[3]
            m == probe[4]
            r == probe[6]
        IN  /\ Calls(r.calls, {"resolve", "reject"}) = 1
            /\ Calls(r.calls, {"revokeObjectURL"}) = 1
            /\ Calls(r.calls, {"resolve"}) = (IF probe[5] = "load" THEN 1 ELSE 0)
            /\ probe[5] = "load" =>
                  /\ FracLeq(r.size.width, m)
                  /\ FracLeq(r.size.height, m)
                  /\ FracLeq(r.size.width, w)
                  /\ FracLeq(r.size.height, h)
                  /\ FracEq(Times(h, r.size.width[1], r.size.width[2]),
                            Times(w, r.size.height[1], r.size.height[2]))
                  /\ IF w <= m /\ h <= m
                     THEN r.size.width = Whole(w) /\ r.size.height = Whole(h)
                     ELSE IF w > h THEN r.size.width = Whole(m)
                     ELSE r.size.height = Whole(m)

CompressBoundedWitness ==
    /\ compressCalled
    /\ probe[5] = "load"
    /\ probe[2] <= probe[4]
    /\ probe[3] > probe[4]
    /\ probe[2] > 0
    /\ probe[6].size.height = Whole(probe[4])
    /\ ~FracEq(probe[6].size.width, Whole(probe[2]))

====
